---- MODULE Spec2Model ----
(***************************************************************************)
(* Model of the Google Shopping operations of the E-Commerce client        *)
(* (ecommerce/google_shopping.go), the default setters of the internal     *)
(* package and the client constructors Init / InitAsync.                   *)
(*                                                                         *)
(* A call is a frame that walks through the stages of the Go function:     *)
(*   Call -> (ValidateUrl) -> SetDefaults -> CheckParameterValidity ->     *)
(*   BuildPayload -> Marshal -> Req -> GetResp -> done                     *)
(* Option structs live in a heap because the functions take them by        *)
(* pointer and write the defaults through that pointer.                    *)
(***************************************************************************)
EXTENDS Integers, Sequences, FiniteSets, TLC

(***************************************************************************)
(* Bounds and input domains                                                *)
(***************************************************************************)
\* Pages and StartPage are drawn from -1 .. MaxPage.
MaxPage == 2

Callers == {1, 2}
Objs == {1, 2}

PageValues == (-1) .. MaxPage
PriceValues == {-1, 0, 5}
SortByValues == {"pd", "zz"}
UserAgents == {"", "mobile", "bogus_ua"}
Renders == {"", "html", "bogus_render"}
Domains == {"", "nl"}
Urls == {"https://shopping.google.com/product/1", "https://example.com/item"}
Queries == {"adidas"}
Usernames == {"alice", "bob"}
Passwords == {"s3cret"}

\* *map[string]interface{}: the nil pointer, or a pointer to an instruction map.
PINil == "nil"
ParseInstructionMaps == {"pi_ok", "pi_bad"}

Fns == {"Url", "Search", "Product", "Pricing"}

(***************************************************************************)
(* Constants of the program                                                *)
(***************************************************************************)
SyncBaseUrl == "https://realtime.oxylabs.io/v1/queries"
AsyncBaseUrl == "https://data.oxylabs.io/v1/queries"
UA_DESKTOP == "desktop"
DOMAIN_COM == "com"
\* Faulty variant: one more sort key is let through.
AcceptedSortByParameters_extra == {"r", "p", "rv", "pd", "zz"}
AcceptedSortByParameters == {"r", "p", "rv", "pd"}
HttpMethod == "POST"

SourceOf(fn) ==
    CASE fn = "Url" -> "google_shopping"
      [] fn = "Search" -> "google_shopping_search"
      [] fn = "Product" -> "google_shopping_product"
      [] fn = "Pricing" -> "google_shopping_pricing"

(***************************************************************************)
(* interface{} values held by the context map                              *)
(***************************************************************************)
NilV == [t |-> "nil", i |-> 0, s |-> ""]
IntV(n) == [t |-> "int", i |-> n, s |-> ""]
StrV(x) == [t |-> "string", i |-> 0, s |-> x]

CtxKeys == {"nfpr", "sort_by", "min_price", "max_price"}

\* make(oxylabs.ContextOption): every key reads as nil.
EmptyContext == [k \in CtxKeys |-> NilV]

\* A context modifier writes one key of the map.
Modifier(k, v) == [key |-> k, value |-> v]

\* for _, modifier := range opt.Context { modifier(context) }
RECURSIVE ApplyModifiers(_, _)
ApplyModifiers(mods, ctx) ==
    IF mods = <<>> THEN ctx
    ELSE ApplyModifiers(Tail(mods),
                        [ctx EXCEPT ![Head(mods).key] = Head(mods).value])

\* The modifier lists a caller builds: optional SortBy, MinPrice, MaxPrice.
\* The modifiers of the oxylabs package are typed: SortBy stores a string,
\* MinPrice and MaxPrice store an int.
OptionalModifier(k, vals) == {<<>>} \cup {<<Modifier(k, v)>> : v \in vals}

ContextLists ==
    {a \o b \o c :
        a \in OptionalModifier("sort_by", {StrV(x) : x \in SortByValues}),
        b \in OptionalModifier("min_price", {IntV(n) : n \in PriceValues}),
        c \in OptionalModifier("max_price", {IntV(n) : n \in PriceValues})}

(***************************************************************************)
(* Option structs                                                          *)
(***************************************************************************)
\* The zero value of an options struct of the given operation.
ZeroOpts(fn) ==
    [type |-> fn, Domain |-> "", StartPage |-> 0, Pages |-> 0, Locale |-> "",
     ResultsLanguage |-> "", GeoLocation |-> "", UserAgent |-> "",
     Render |-> "", CallbackUrl |-> "", Parse |-> FALSE,
     ParseInstructions |-> PINil, Context |-> <<>>]

PIs == {PINil} \cup ParseInstructionMaps

GoogleShoppingUrlOpts ==
    {[ZeroOpts("Url") EXCEPT !.UserAgent = ua, !.Render = r, !.Parse = p,
                             !.ParseInstructions = pi] :
        ua \in UserAgents, r \in Renders, p \in BOOLEAN, pi \in PIs}

GoogleShoppingProductOpts ==
    {[ZeroOpts("Product") EXCEPT !.Domain = d, !.UserAgent = ua, !.Render = r,
                                 !.Parse = p, !.ParseInstructions = pi] :
        d \in Domains, ua \in UserAgents, r \in Renders, p \in BOOLEAN,
        pi \in PIs}

GoogleShoppingPricingOpts ==
    {[ZeroOpts("Pricing") EXCEPT !.Domain = d, !.StartPage = sp, !.Pages = pg,
                                 !.UserAgent = ua, !.Render = r, !.Parse = p,
                                 !.ParseInstructions = pi] :
        d \in Domains, sp \in PageValues, pg \in PageValues, ua \in UserAgents,
        r \in Renders, p \in BOOLEAN, pi \in PIs}

GoogleShoppingSearchOpts ==
    {[ZeroOpts("Search") EXCEPT !.Domain = d, !.StartPage = sp, !.Pages = pg,
                                !.UserAgent = ua, !.Render = r, !.Parse = p,
                                !.ParseInstructions = pi, !.Context = cx] :
        d \in Domains, sp \in PageValues, pg \in PageValues, ua \in UserAgents,
        r \in Renders, p \in BOOLEAN, pi \in PIs, cx \in ContextLists}

OptsOf(fn) ==
    CASE fn = "Url" -> GoogleShoppingUrlOpts
      [] fn = "Search" -> GoogleShoppingSearchOpts
      [] fn = "Product" -> GoogleShoppingProductOpts
      [] fn = "Pricing" -> GoogleShoppingPricingOpts

TargetsOf(fn) == IF fn = "Url" THEN Urls ELSE Queries

(***************************************************************************)
(* Helpers of the oxylabs and internal packages                            *)
(***************************************************************************)
SupportedUserAgents == {"desktop", "mobile"}
SupportedRenders == {"html", "png"}

IsUserAgentValid(ua) == ua \in SupportedUserAgents
IsRenderValid(r) == r \in SupportedRenders
ValidateParseInstructions(pi) == pi = "pi_ok"
ValidateUrl(url, host) ==
    host = "shopping.google" /\ url = "https://shopping.google.com/product/1"
InList(x, list) == x \in list

\* SetDefaultDomain: if *domain == "" { *domain = DOMAIN_COM }
SetDefaultDomain(domain) == IF domain = "" THEN DOMAIN_COM ELSE domain

\* Faulty variant: no default is applied.
SetDefaultStartPage_none(startPage) == startPage

\* SetDefaultStartPage: if *startPage == 0 { *startPage = 1 }
SetDefaultStartPage(startPage) ==
    IF startPage = 0 THEN 1 ELSE startPage

\* Faulty variant: the default overwrites a value the caller set.
SetDefaultPages_overwrite(pages) == 1

\* SetDefaultPages: if *pages == 0 { *pages = 1 }
SetDefaultPages(pages) == IF pages = 0 THEN 1 ELSE pages

\* SetDefaultUserAgent: if *userAgent == "" { *userAgent = UA_DESKTOP }
SetDefaultUserAgent(userAgent) ==
    IF userAgent = "" THEN UA_DESKTOP ELSE userAgent

\* SetDefaultSortBy: if ctx["sort_by"] == nil { ctx["sort_by"] = "r" }
SetDefaultSortBy(ctx) ==
    IF ctx["sort_by"].t = "nil" THEN [ctx EXCEPT !["sort_by"] = StrV("r")]
    ELSE ctx

(***************************************************************************)
(* checkParameterValidity of the four option structs                       *)
(***************************************************************************)
Ok == [kind |-> "ok", err |-> "nil"]
Err(e) == [kind |-> "err", err |-> e]
\* A failed type assertion x.(T) panics: the call does not return.
Panic == [kind |-> "panic", err |-> "nil"]

ErrUserAgent == "invalid user agent parameter"
ErrRender == "invalid render parameter"
ErrPages == "pages and start_page parameters must be greater than 0"
ErrSortBy == "invalid sort_by parameter"
ErrPrice == "min and max prices should be greater than 0"
ErrParseInstructions == "invalid parse instructions"
ErrUrl == "invalid url"
ErrMarshal == "error marshalling payload"
ErrTransport == "transport error"
ErrResponse == "response error"

\* if opt.ParseInstructions != nil { if err := ValidateParseInstructions(..) }
ParseInstructionsCheck(opt) ==
    IF opt.ParseInstructions # PINil
       /\ ~ValidateParseInstructions(opt.ParseInstructions)
    THEN Err(ErrParseInstructions)
    ELSE Ok

\* ctx["sort_by"] != nil && !InList(ctx["sort_by"].(string), Accepted...)
SortByCheck(ctx) ==
    LET sb == ctx["sort_by"] IN
    IF sb.t = "nil" THEN Ok
    ELSE IF sb.t # "string" THEN Panic
    ELSE IF ~InList(sb.s, AcceptedSortByParameters) THEN Err(ErrSortBy)
    ELSE Ok

\* Faulty variant: a bound that is not supplied is skipped instead of asserted.
PriceCheck_skipNil(ctx) ==
    LET mn == ctx["min_price"]
        mx == ctx["max_price"]
    IN  IF mn.t = "int" /\ mn.i < 0 THEN Err(ErrPrice)
        ELSE IF mx.t = "int" /\ mx.i < 0 THEN Err(ErrPrice)
        ELSE Ok

\* (ctx["min_price"] != nil || ctx["max_price"] != nil) &&
\*     (ctx["min_price"].(int) < 0 || ctx["max_price"].(int) < 0)
\* evaluated left to right with short circuit; x.(int) panics on a nil x.
PriceCheck(ctx) ==
    LET mn == ctx["min_price"]
        mx == ctx["max_price"]
    IN  IF mn.t = "nil" /\ mx.t = "nil" THEN Ok
        ELSE IF mn.t # "int" THEN Panic
        ELSE IF mn.i < 0 THEN Err(ErrPrice)
        ELSE IF mx.t # "int" THEN Panic
        ELSE IF mx.i < 0 THEN Err(ErrPrice)
        ELSE Ok

GoogleShoppingUrlOpts_checkParameterValidity(opt) ==
    IF ~IsUserAgentValid(opt.UserAgent) THEN Err(ErrUserAgent)
    ELSE IF opt.Render # "" /\ ~IsRenderValid(opt.Render) THEN Err(ErrRender)
    ELSE ParseInstructionsCheck(opt)

GoogleShoppingSearchOpts_checkParameterValidity(opt, ctx) ==
    IF ~IsUserAgentValid(opt.UserAgent) THEN Err(ErrUserAgent)
    ELSE IF opt.Render # "" /\ ~IsRenderValid(opt.Render) THEN Err(ErrRender)
    ELSE IF opt.Pages <= 0 \/ opt.StartPage <= 0 THEN Err(ErrPages)
    ELSE IF SortByCheck(ctx).kind # "ok" THEN SortByCheck(ctx)
    ELSE IF PriceCheck(ctx).kind # "ok" THEN PriceCheck(ctx)
    ELSE ParseInstructionsCheck(opt)

GoogleShoppingProductOpts_checkParameterValidity(opt) ==
    IF ~IsUserAgentValid(opt.UserAgent) THEN Err(ErrUserAgent)
    ELSE IF opt.Render # "" /\ ~IsRenderValid(opt.Render) THEN Err(ErrRender)
    ELSE ParseInstructionsCheck(opt)

GoogleShoppingPricingOpts_checkParameterValidity(opt) ==
    IF ~IsUserAgentValid(opt.UserAgent) THEN Err(ErrUserAgent)
    ELSE IF opt.Render # "" /\ ~IsRenderValid(opt.Render) THEN Err(ErrRender)
    ELSE IF opt.Pages <= 0 \/ opt.StartPage <= 0 THEN Err(ErrPages)
    ELSE ParseInstructionsCheck(opt)

checkParameterValidity(fn, opt, ctx) ==
    CASE fn = "Url" -> GoogleShoppingUrlOpts_checkParameterValidity(opt)
      [] fn = "Search" -> GoogleShoppingSearchOpts_checkParameterValidity(opt, ctx)
      [] fn = "Product" -> GoogleShoppingProductOpts_checkParameterValidity(opt)
      [] fn = "Pricing" -> GoogleShoppingPricingOpts_checkParameterValidity(opt)

(***************************************************************************)
(* Payload construction and json.Marshal                                   *)
(***************************************************************************)
NoPayload == [source |-> "none"]

UrlPayload(url, opt) ==
    [source |-> SourceOf("Url"), url |-> url, user_agent_type |-> opt.UserAgent,
     render |-> opt.Render, callback_url |-> opt.CallbackUrl,
     geo_location |-> opt.GeoLocation, parse |-> opt.Parse]

ProductPayload(query, opt) ==
    [source |-> SourceOf("Product"), domain |-> opt.Domain, query |-> query,
     locale |-> opt.Locale, results_language |-> opt.ResultsLanguage,
     geo_location |-> opt.GeoLocation, user_agent_type |-> opt.UserAgent,
     render |-> opt.Render, callback_url |-> opt.CallbackUrl,
     parse |-> opt.Parse]

PricingPayload(query, opt) ==
    [source |-> SourceOf("Pricing"), domain |-> opt.Domain, query |-> query,
     start_page |-> opt.StartPage, pages |-> opt.Pages, locale |-> opt.Locale,
     results_language |-> opt.ResultsLanguage, geo_location |-> opt.GeoLocation,
     user_agent_type |-> opt.UserAgent, render |-> opt.Render,
     callback_url |-> opt.CallbackUrl, parse |-> opt.Parse]

ContextKeyOrder == <<"nfpr", "sort_by", "min_price", "max_price">>

SearchPayload(query, opt, ctx) ==
    [source |-> SourceOf("Search"), domain |-> opt.Domain, query |-> query,
     start_page |-> opt.StartPage, pages |-> opt.Pages, locale |-> opt.Locale,
     results_language |-> opt.ResultsLanguage, geo_location |-> opt.GeoLocation,
     user_agent_type |-> opt.UserAgent, render |-> opt.Render,
     callback_url |-> opt.CallbackUrl, parse |-> opt.Parse,
     context |-> [i \in 1 .. Len(ContextKeyOrder) |->
                    [key |-> ContextKeyOrder[i],
                     value |-> ctx[ContextKeyOrder[i]]]]]

CommonPayload(fn, target, opt, ctx) ==
    CASE fn = "Url" -> UrlPayload(target, opt)
      [] fn = "Search" -> SearchPayload(target, opt, ctx)
      [] fn = "Product" -> ProductPayload(target, opt)
      [] fn = "Pricing" -> PricingPayload(target, opt)

\* Faulty variant: the key is written whether or not instructions were given.
AddParsingInstructions_always(payload, opt) ==
    payload @@ [parsing_instructions |-> opt.ParseInstructions]

\* if opt.ParseInstructions != nil { payload["parsing_instructions"] = ... }
AddParsingInstructions(payload, opt) ==
    IF opt.ParseInstructions # PINil
    THEN payload @@ [parsing_instructions |-> opt.ParseInstructions]
    ELSE payload

\* customParserFlag := false; set to true in the same branch.
CustomParserFlag(opt) == opt.ParseInstructions # PINil

\* JSON values.
JAbsent == [j |-> "absent", s |-> "", n |-> 0, items |-> <<>>]
JNull == [j |-> "null", s |-> "", n |-> 0, items |-> <<>>]
JStr(x) == [j |-> "string", s |-> x, n |-> 0, items |-> <<>>]
JNum(x) == [j |-> "number", s |-> "", n |-> x, items |-> <<>>]
JBool(b) ==
    [j |-> "bool", s |-> IF b THEN "true" ELSE "false", n |-> 0, items |-> <<>>]
JObj(x) == [j |-> "object", s |-> x, n |-> 0, items |-> <<>>]
JArr(xs) == [j |-> "array", s |-> "", n |-> 0, items |-> xs]

\* An interface{} value: nil encodes as null.
JsonOfValue(v) ==
    CASE v.t = "nil" -> JNull
      [] v.t = "int" -> JNum(v.i)
      [] v.t = "string" -> JStr(v.s)

\* json.Marshal writes the keys of a map in sorted order.
JsonKeyOrder ==
    <<"callback_url", "context", "domain", "geo_location", "locale", "pages",
      "parse", "parsing_instructions", "query", "render", "results_language",
      "source", "start_page", "url", "user_agent_type">>

JsonOfField(k, v) ==
    CASE k \in {"pages", "start_page"} -> JNum(v)
      [] k = "parse" -> JBool(v)
      [] k = "parsing_instructions" -> JObj(v)
      [] k = "context" ->
            JArr([i \in 1 .. Len(v) |->
                    [key |-> v[i].key, value |-> JsonOfValue(v[i].value)]])
      [] OTHER -> JStr(v)

Marshal(payload) ==
    LET keys == SelectSeq(JsonKeyOrder, LAMBDA k : k \in DOMAIN payload)
    IN  [i \in 1 .. Len(keys) |->
            [key |-> keys[i], value |-> JsonOfField(keys[i], payload[keys[i]])]]

\* The value a JSON object holds under a key (JAbsent when it has no such key).
JsonGet(json, k) ==
    IF \E i \in 1 .. Len(json) : json[i].key = k
    THEN json[CHOOSE i \in 1 .. Len(json) : json[i].key = k].value
    ELSE JAbsent

\* The value of an entry of the "context" array of a search payload.
JsonContextGet(json, k) ==
    LET items == JsonGet(json, "context").items IN
    IF \E i \in 1 .. Len(items) : items[i].key = k
    THEN items[CHOOSE i \in 1 .. Len(items) : items[i].key = k].value
    ELSE JAbsent

\* Marshalling fails only on values the encoder does not support; the typed
\* fields always encode, a caller-built instruction map may not.
MarshalCanFail(payload) == "parsing_instructions" \in DOMAIN payload

(***************************************************************************)
(* Client construction                                                     *)
(***************************************************************************)
\* Faulty variant: the synchronous constructor takes the asynchronous endpoint.
ClientInit_asyncUrl(username, password) ==
    [type |-> "Client", BaseUrl |-> AsyncBaseUrl,
     Username |-> username, Password |-> password]

\* Init for the Sync runtime model.
ClientInit(username, password) ==
    [type |-> "Client", BaseUrl |-> SyncBaseUrl,
     Username |-> username, Password |-> password]

\* InitAsync for the Async runtime model: a separate client type.
ClientInitAsync(username, password) ==
    [type |-> "ClientAsync", BaseUrl |-> AsyncBaseUrl,
     Username |-> username, Password |-> password]

(***************************************************************************)
(* State                                                                   *)
(***************************************************************************)
VARIABLES
    client,   \* the client the calls run on (internal.Client behind C)
    ctor,     \* the constructor call that built it (history)
    heap,     \* the option structs, addressed by pointer
    frame,    \* per caller: position and locals of its current call
    hist,     \* per caller: what the current call did so far (history)
    acc,      \* per caller: heap locations the current call read / wrote
    racy      \* heap locations two overlapping calls accessed, one writing

vars == <<client, ctor, heap, frame, hist, acc, racy>>

IdleFrame ==
    [pc |-> "idle", fn |-> "none", target |-> "", opt |-> 0,
     context |-> EmptyContext, payload |-> NoPayload,
     customParserFlag |-> FALSE, jsonPayload |-> <<>>, httpResp |-> "nil",
     resp |-> "nil", err |-> "nil"]

NoNormArgs == [called |-> FALSE, parse |-> FALSE, customParserFlag |-> FALSE]

EmptyHist ==
    [arg |-> ZeroOpts("none"), stages |-> <<>>, reqs |-> <<>>,
     piCheck |-> "none", norm |-> NoNormArgs]

NoAccess == [r |-> {}, w |-> {}]

Active(c) == frame[c].pc \notin {"idle", "done", "panicked"}

\* A panic that nobody recovers ends the process, and every call with it.
Crashed == \E c \in Callers : frame[c].pc = "panicked"

InitClient ==
    \E u \in Usernames, p \in Passwords, fn \in {"Init", "InitAsync"} :
        /\ ctor = [fn |-> fn, username |-> u, password |-> p]
        /\ client = IF fn = "Init" THEN ClientInit(u, p)
                    ELSE ClientInitAsync(u, p)

InitCalls ==
    /\ frame = [c \in Callers |-> IdleFrame]
    /\ hist = [c \in Callers |-> EmptyHist]
    /\ acc = [c \in Callers |-> NoAccess]
    /\ racy = {}

Init ==
    /\ InitClient
    /\ heap = [o \in Objs |-> ZeroOpts("Url")]
    /\ InitCalls

(***************************************************************************)
(* Memory accesses of a call                                               *)
(***************************************************************************)
\* The call of c reads the fields R and writes the fields W of its struct.
\* Two calls that overlap are not ordered by any synchronisation, so an
\* access conflicts with every access of the other call to the same field
\* when one of the two is a write.
Access(c, R, W) ==
    LET o == frame[c].opt
        locsR == {<<o, f>> : f \in R}
        locsW == {<<o, f>> : f \in W}
        conflict(l) ==
            \E d \in Callers \ {c} :
                /\ Active(d)
                /\ \/ l \in acc[d].w
                   \/ l \in locsW /\ l \in acc[d].r
    IN  /\ acc' = [acc EXCEPT ![c] = [r |-> @.r \cup locsR, w |-> @.w \cup locsW]]
        /\ racy' = racy \cup {l \in locsR \cup locsW : conflict(l)}

\* What a read of a string field can observe: the stored value, or, when the
\* field is written by an overlapping call, a value not yet written.
ObservedString(o, f) ==
    IF <<o, f>> \in racy THEN {heap[o][f], ""} ELSE {heap[o][f]}

\* The struct as the call of c can observe it.
Observed(c) ==
    LET o == frame[c].opt IN
    {[heap[o] EXCEPT !.UserAgent = ua, !.Domain = d] :
        ua \in ObservedString(o, "UserAgent"), d \in ObservedString(o, "Domain")}

(***************************************************************************)
(* The steps of a call                                                     *)
(***************************************************************************)
Finish(c, resp, err) ==
    frame' = [frame EXCEPT ![c].pc = "done", ![c].resp = resp, ![c].err = err]

Stage(c, name) == [hist[c] EXCEPT !.stages = Append(@, name)]

\* Entry of ScrapeGoogleShopping<fn>Ctx with the struct at address o:
\* "Prepare options", and for a search the context modifiers.
Start(c, fn, target, o, hp) ==
    /\ client.type = "Client"
    /\ ~Crashed
    /\ frame[c].pc = "idle"
    /\ frame' = [frame EXCEPT ![c] =
            [IdleFrame EXCEPT
                !.pc = IF fn = "Url" THEN "validate_url" ELSE "set_defaults",
                !.fn = fn, !.target = target, !.opt = o,
                !.context = IF fn = "Search"
                            THEN ApplyModifiers(hp[o].Context, EmptyContext)
                            ELSE EmptyContext]]
    /\ hist' = [hist EXCEPT ![c] = [EmptyHist EXCEPT !.arg = hp[o]]]
    /\ acc' = [acc EXCEPT ![c] =
            [r |-> IF fn = "Search" THEN {<<o, "Context">>} ELSE {}, w |-> {}]]
    /\ racy' = IF \E d \in Callers \ {c} : Active(d) /\ frame[d].opt = o
               THEN racy
               ELSE {l \in racy : l[1] # o}
    /\ UNCHANGED <<client, ctor>>

\* The caller builds an options struct (or passes none: the zero struct) and
\* calls the operation with it.
CallNew(c) ==
    /\ frame[c].pc = "idle"
    /\ \E fn \in Fns :
        \E target \in TargetsOf(fn), opts \in OptsOf(fn) :
            LET hp == [heap EXCEPT ![c] = opts] IN
            /\ heap' = hp
            /\ Start(c, fn, target, c, hp)

\* The caller passes a struct that already exists, possibly one that another
\* call is using.
CallShared(c) ==
    /\ frame[c].pc = "idle"
    /\ \E o \in Objs, fn \in Fns :
        \E target \in TargetsOf(fn) :
            /\ heap[o].type = fn
            /\ heap' = heap
            /\ Start(c, fn, target, o, heap)

\* err := internal.ValidateUrl(url, "shopping.google")
ValidateUrlStep(c) ==
    /\ ~Crashed
    /\ frame[c].pc = "validate_url"
    /\ IF ValidateUrl(frame[c].target, "shopping.google")
       THEN frame' = [frame EXCEPT ![c].pc = "set_defaults"]
       ELSE Finish(c, "nil", ErrUrl)
    /\ hist' = [hist EXCEPT ![c] = Stage(c, "url_validation")]
    /\ UNCHANGED <<client, ctor, heap, acc, racy>>

\* The struct after the "Set defaults" block of the operation.
Defaulted(fn, opt) ==
    CASE fn = "Url" ->
            [opt EXCEPT !.UserAgent = SetDefaultUserAgent(@)]
      [] fn = "Product" ->
            [opt EXCEPT !.Domain = SetDefaultDomain(@),
                        !.UserAgent = SetDefaultUserAgent(@)]
      [] fn \in {"Search", "Pricing"} ->
            [opt EXCEPT !.Pages = SetDefaultPages(@),
                        !.Domain = SetDefaultDomain(@),
                        !.StartPage = SetDefaultStartPage(@),
                        !.UserAgent = SetDefaultUserAgent(@)]

\* The fields the "Set defaults" block reads.
DefaultedFields(fn) ==
    CASE fn = "Url" -> {"UserAgent"}
      [] fn = "Product" -> {"Domain", "UserAgent"}
      [] fn \in {"Search", "Pricing"} ->
            {"Pages", "Domain", "StartPage", "UserAgent"}

SetDefaults(c) ==
    LET fn == frame[c].fn
        o == frame[c].opt
        new == Defaulted(fn, heap[o])
    IN  /\ ~Crashed
        /\ frame[c].pc = "set_defaults"
        /\ heap' = [heap EXCEPT ![o] = new]
        /\ frame' = [frame EXCEPT
                ![c].pc = "check_params",
                ![c].context = IF fn = "Search" THEN SetDefaultSortBy(@) ELSE @]
        /\ Access(c, DefaultedFields(fn),
                  {f \in DefaultedFields(fn) : new[f] # heap[o][f]})
        /\ UNCHANGED <<client, ctor, hist>>

\* The fields checkParameterValidity reads.
CheckedFields(fn) ==
    {"UserAgent", "Render", "ParseInstructions"}
        \cup IF fn \in {"Search", "Pricing"} THEN {"Pages", "StartPage"} ELSE {}

\* err := opt.checkParameterValidity(...)
CheckParameterValidity(c) ==
    /\ ~Crashed
    /\ frame[c].pc = "check_params"
    /\ \E opt \in Observed(c) :
        LET res == checkParameterValidity(frame[c].fn, opt, frame[c].context) IN
        /\ CASE res.kind = "ok" ->
                    frame' = [frame EXCEPT ![c].pc = "build_payload"]
             [] res.kind = "err" -> Finish(c, "nil", res.err)
             [] res.kind = "panic" ->
                    frame' = [frame EXCEPT ![c].pc = "panicked"]
        /\ hist' = [hist EXCEPT ![c] =
                [Stage(c, "parameter_validation") EXCEPT
                    !.piCheck =
                        IF res = Err(ErrParseInstructions) THEN "rejected"
                        ELSE IF res.kind = "ok" /\ opt.ParseInstructions # PINil
                        THEN "accepted"
                        ELSE "none"]]
        /\ Access(c, CheckedFields(frame[c].fn), {})
        /\ UNCHANGED <<client, ctor, heap>>

\* The fields the payload literal reads.
PayloadFields(fn) ==
    {"UserAgent", "Render", "CallbackUrl", "GeoLocation", "Parse",
     "ParseInstructions"}
        \cup (IF fn = "Url" THEN {}
              ELSE {"Domain", "Locale", "ResultsLanguage"})
        \cup (IF fn \in {"Search", "Pricing"} THEN {"StartPage", "Pages"} ELSE {})

\* "Prepare payload" and "Add custom parsing instructions".
BuildPayload(c) ==
    /\ ~Crashed
    /\ frame[c].pc = "build_payload"
    /\ \E opt \in Observed(c) :
        /\ frame' = [frame EXCEPT
                ![c].pc = "marshal",
                ![c].payload =
                    AddParsingInstructions(
                        CommonPayload(frame[c].fn, frame[c].target, opt,
                                      frame[c].context), opt),
                ![c].customParserFlag = CustomParserFlag(opt)]
        /\ Access(c, PayloadFields(frame[c].fn), {})
        /\ UNCHANGED <<client, ctor, heap, hist>>

\* jsonPayload, err := json.Marshal(payload)
MarshalStep(c) ==
    /\ ~Crashed
    /\ frame[c].pc = "marshal"
    /\ \/ frame' = [frame EXCEPT ![c].pc = "req",
                                 ![c].jsonPayload = Marshal(frame[c].payload)]
       \/ /\ MarshalCanFail(frame[c].payload)
          /\ Finish(c, "nil", ErrMarshal)
    /\ hist' = [hist EXCEPT ![c] = Stage(c, "serialization")]
    /\ UNCHANGED <<client, ctor, heap, acc, racy>>

\* Faulty variant: a transport error is retried instead of returned.
Req_retry(c) ==
    /\ ~Crashed
    /\ frame[c].pc = "req"
    /\ \/ frame' = [frame EXCEPT ![c].pc = "get_resp", ![c].httpResp = "httpResp"]
       \/ /\ Len(hist[c].reqs) < 2
          /\ UNCHANGED frame
    /\ hist' = [hist EXCEPT ![c] =
            [Stage(c, "transport") EXCEPT
                !.reqs = Append(@, [method |-> HttpMethod,
                                    body |-> frame[c].jsonPayload,
                                    url |-> client.BaseUrl,
                                    username |-> client.Username,
                                    password |-> client.Password])]]
    /\ UNCHANGED <<client, ctor, heap, acc, racy>>

\* httpResp, err := c.C.Req(ctx, jsonPayload, "POST")
Req(c) ==
    /\ ~Crashed
    /\ frame[c].pc = "req"
    /\ \/ frame' = [frame EXCEPT ![c].pc = "get_resp", ![c].httpResp = "httpResp"]
       \/ Finish(c, "nil", ErrTransport)
    /\ hist' = [hist EXCEPT ![c] =
            [Stage(c, "transport") EXCEPT
                !.reqs = Append(@, [method |-> HttpMethod,
                                    body |-> frame[c].jsonPayload,
                                    url |-> client.BaseUrl,
                                    username |-> client.Username,
                                    password |-> client.Password])]]
    /\ UNCHANGED <<client, ctor, heap, acc, racy>>

\* resp, err := GetResp(httpResp, opt.Parse, customParserFlag)
GetResp(c) ==
    /\ ~Crashed
    /\ frame[c].pc = "get_resp"
    /\ \/ Finish(c, "resp", "nil")
       \/ Finish(c, "nil", ErrResponse)
    /\ hist' = [hist EXCEPT ![c] =
            [Stage(c, "normalization") EXCEPT
                !.norm = [called |-> TRUE, parse |-> heap[frame[c].opt].Parse,
                          customParserFlag |-> frame[c].customParserFlag]]]
    /\ Access(c, {"Parse"}, {})
    /\ UNCHANGED <<client, ctor, heap>>

\* A read of a string that an overlapping call is writing can also observe a
\* half-written string header, and using it faults.
Fault(c) ==
    /\ ~Crashed
    /\ frame[c].pc \in {"check_params", "build_payload"}
    /\ \E f \in {"UserAgent", "Domain"} : <<frame[c].opt, f>> \in racy
    /\ frame' = [frame EXCEPT ![c].pc = "panicked"]
    /\ UNCHANGED <<client, ctor, heap, hist, acc, racy>>

\* The call has returned (resp, err) to the caller, which goes on and keeps the
\* options struct.
Return(c) ==
    /\ ~Crashed
    /\ frame[c].pc = "done"
    /\ frame' = [frame EXCEPT ![c] = IdleFrame]
    /\ hist' = [hist EXCEPT ![c] = EmptyHist]
    /\ acc' = [acc EXCEPT ![c] = NoAccess]
    /\ UNCHANGED <<client, ctor, heap, racy>>

\* The same, with a caller that drops the options struct it built for the call.
ReturnDiscard(c) ==
    /\ ~Crashed
    /\ frame[c].pc = "done"
    /\ frame' = [frame EXCEPT ![c] = IdleFrame]
    /\ hist' = [hist EXCEPT ![c] = EmptyHist]
    /\ acc' = [acc EXCEPT ![c] = NoAccess]
    /\ heap' = [heap EXCEPT ![frame[c].opt] = ZeroOpts("Url")]
    /\ UNCHANGED <<client, ctor, racy>>

Step(c) ==
    \/ ValidateUrlStep(c)
    \/ SetDefaults(c)
    \/ CheckParameterValidity(c)
    \/ BuildPayload(c)
    \/ MarshalStep(c)
    \/ Req(c)
    \/ GetResp(c)

(***************************************************************************)
(* Specifications                                                          *)
(***************************************************************************)
\* One caller, one call after the other, each with a struct of its own.
Next ==
    \/ CallNew(1)
    \/ Step(1)
    \/ ReturnDiscard(1)

Spec == Init /\ [][Next]_vars

\* Two callers whose calls overlap, on structs they may share.
SharedOpts(fn) ==
    {ZeroOpts(fn),
     [ZeroOpts(fn) EXCEPT !.Domain = "nl", !.StartPage = 2, !.Pages = 2,
                          !.UserAgent = "mobile"]}

InitConc ==
    /\ InitClient
    /\ \E fn \in Fns : heap \in [Objs -> SharedOpts(fn)]
    /\ InitCalls

NextConc ==
    \E c \in Callers :
        \/ CallShared(c)
        \/ Step(c)
        \/ Fault(c)
        \/ Return(c)

SpecConc == InitConc /\ [][NextConc]_vars

(***************************************************************************)
(* Vocabulary of the properties                                            *)
(***************************************************************************)
Called(c) == frame[c].fn # "none"
Done(c) == frame[c].pc = "done"
Panicked(c) == frame[c].pc = "panicked"
PastValidation(c) ==
    frame[c].pc \in {"build_payload", "marshal", "req", "get_resp"}
NoRequest(c) == Len(hist[c].reqs) = 0 /\ ~PastValidation(c)

\* The options struct and the context map as the caller handed them over.
Arg(c) == hist[c].arg
ArgContext(c) == ApplyModifiers(Arg(c).Context, EmptyContext)

ValidationErrors ==
    {ErrUrl, ErrUserAgent, ErrRender, ErrPages, ErrSortBy, ErrPrice,
     ErrParseInstructions}

ReturnedValidationError(c) ==
    Done(c) => frame[c].resp = "nil" /\ frame[c].err \in ValidationErrors

\* The bodies of the requests the call has sent.
Bodies(c) == {hist[c].reqs[i].body : i \in 1 .. Len(hist[c].reqs)}

(***************************************************************************)
(* C1                                                                      *)
(***************************************************************************)
C1_UnsupportedEnum(c) ==
    \/ Arg(c).UserAgent \notin {""} \cup SupportedUserAgents
    \/ Arg(c).Render \notin {""} \cup SupportedRenders
    \/ /\ frame[c].fn = "Search"
       /\ ArgContext(c)["sort_by"].t = "string"
       /\ ArgContext(c)["sort_by"].s \notin {"r", "p", "rv", "pd"}

\* C1: a call of any of the four operations whose options carry an
\* unsupported user agent, an unsupported non-empty render mode or (search) a
\* sort_by outside {r, p, rv, pd} never gets past validation, has sent no
\* request at any point, and returns a nil response with a validation error.
C1_InvalidEnumRejectedBeforeRequest ==
    \A c \in Callers :
        Called(c) /\ C1_UnsupportedEnum(c) =>
            /\ NoRequest(c)
            /\ ~Panicked(c)
            /\ ReturnedValidationError(c)

C1_Witness ==
    \E c \in Callers :
        /\ Done(c)
        /\ frame[c].fn = "Search"
        /\ Arg(c).UserAgent = "mobile"
        /\ ArgContext(c)["sort_by"] = StrV("zz")
        /\ frame[c].err = ErrSortBy
        /\ Len(hist[c].reqs) = 0

(***************************************************************************)
(* C2                                                                      *)
(***************************************************************************)
\* C2: in every payload that is sent, a field the caller left unset carries
\* its default (pages 1, start_page 1, domain com, user_agent_type desktop,
\* search sort_by r) and a field the caller set carries the caller's value.
C2_DefaultsInPayload ==
    \A c \in Callers :
        \A b \in Bodies(c) :
            /\ JsonGet(b, "user_agent_type") =
                    JStr(IF Arg(c).UserAgent = "" THEN "desktop"
                         ELSE Arg(c).UserAgent)
            /\ frame[c].fn # "Url" =>
                    JsonGet(b, "domain") =
                        JStr(IF Arg(c).Domain = "" THEN "com" ELSE Arg(c).Domain)
            /\ frame[c].fn \in {"Search", "Pricing"} =>
                    /\ JsonGet(b, "pages") =
                            JNum(IF Arg(c).Pages = 0 THEN 1 ELSE Arg(c).Pages)
                    /\ JsonGet(b, "start_page") =
                            JNum(IF Arg(c).StartPage = 0 THEN 1
                                 ELSE Arg(c).StartPage)
            /\ frame[c].fn = "Search" =>
                    JsonContextGet(b, "sort_by") =
                        IF ArgContext(c)["sort_by"].t = "nil" THEN JStr("r")
                        ELSE JStr(ArgContext(c)["sort_by"].s)

C2_Witness ==
    \E c \in Callers :
        /\ frame[c].fn = "Search"
        /\ Len(hist[c].reqs) = 1
        /\ Arg(c).Pages = 0
        /\ Arg(c).StartPage = 2
        /\ Arg(c).Domain = ""
        /\ Arg(c).UserAgent = "mobile"
        /\ ArgContext(c)["sort_by"].t = "nil"

(***************************************************************************)
(* C3                                                                      *)
(***************************************************************************)
\* C3: on the client of the synchronous endpoint a call sends at most one
\* request, always a POST to the synchronous endpoint; a call that ended has
\* sent exactly one if it passed validation and serialization (whether or not
\* transport or normalization then failed) and none otherwise.
C3_ExactlyOnePost ==
    \A c \in Callers :
        Called(c) /\ client.BaseUrl = "https://realtime.oxylabs.io/v1/queries" =>
            /\ Len(hist[c].reqs) <= 1
            /\ \A i \in 1 .. Len(hist[c].reqs) :
                    /\ hist[c].reqs[i].method = "POST"
                    /\ hist[c].reqs[i].url = client.BaseUrl
            /\ frame[c].pc = "get_resp" => Len(hist[c].reqs) = 1
            /\ Done(c) =>
                    Len(hist[c].reqs) =
                        IF frame[c].err \in ValidationErrors \cup {ErrMarshal}
                        THEN 0 ELSE 1

C3_Witness ==
    \E c \in Callers :
        /\ Done(c)
        /\ frame[c].err = ErrTransport
        /\ Len(hist[c].reqs) = 1

(***************************************************************************)
(* C4                                                                      *)
(***************************************************************************)
\* C4: every call of ScrapeGoogleShoppingSearchCtx ends by returning a
\* response or an error to its caller; no input makes the call abort.
C4_SearchAlwaysReturns ==
    \A c \in Callers : frame[c].fn = "Search" => ~Panicked(c)

(***************************************************************************)
(* C5                                                                      *)
(***************************************************************************)
StageOrder(fn) ==
    (IF fn = "Url" THEN <<"url_validation">> ELSE <<>>)
        \o <<"parameter_validation", "serialization", "transport",
             "normalization">>

StageErrors(stage) ==
    CASE stage = "url_validation" -> {ErrUrl}
      [] stage = "parameter_validation" -> ValidationErrors \ {ErrUrl}
      [] stage = "serialization" -> {ErrMarshal}
      [] stage = "transport" -> {ErrTransport}
      [] stage = "normalization" -> {ErrResponse}

\* C5: the stages of a call run in the fixed order; the first stage that
\* fails ends the call and the caller receives a nil response and that
\* stage's error; a response comes only after every stage, with a nil error.
C5_FirstFailureReturned ==
    \A c \in Callers :
        Called(c) =>
            LET st == hist[c].stages
                n == Len(st)
            IN  /\ n <= Len(StageOrder(frame[c].fn))
                /\ st = SubSeq(StageOrder(frame[c].fn), 1, n)
                /\ ~Panicked(c)
                /\ Done(c) =>
                    /\ n >= 1
                    /\ \/ /\ frame[c].resp # "nil"
                          /\ frame[c].err = "nil"
                          /\ st = StageOrder(frame[c].fn)
                       \/ /\ frame[c].resp = "nil"
                          /\ frame[c].err \in StageErrors(st[n])

(***************************************************************************)
(* C6                                                                      *)
(***************************************************************************)
C6_Supplied(c, k) == ArgContext(c)[k].t # "nil"
C6_Negative(c, k) == ArgContext(c)[k].t = "int" /\ ArgContext(c)[k].i < 0

\* C6: in a search, when exactly one of min_price and max_price is supplied
\* the call fails (an error, or it does not return) and sends no request;
\* when both are supplied the price check rejects exactly when one of them
\* is negative; when neither is supplied the price check passes.
C6_PriceBounds ==
    \A c \in Callers :
        frame[c].fn = "Search" =>
            LET mn == C6_Supplied(c, "min_price")
                mx == C6_Supplied(c, "max_price")
                neg == C6_Negative(c, "min_price") \/ C6_Negative(c, "max_price")
            IN  /\ mn # mx =>
                    /\ NoRequest(c)
                    /\ Done(c) => frame[c].resp = "nil" /\ frame[c].err # "nil"
                /\ mn /\ mx =>
                    /\ ~Panicked(c)
                    /\ frame[c].err = ErrPrice => neg
                    /\ neg => NoRequest(c) /\ ReturnedValidationError(c)
                /\ ~mn /\ ~mx => ~Panicked(c) /\ frame[c].err # ErrPrice

C6_Witness ==
    \E c \in Callers :
        /\ Panicked(c)
        /\ frame[c].fn = "Search"
        /\ ~C6_Supplied(c, "min_price")
        /\ ArgContext(c)["max_price"] = IntV(5)

(***************************************************************************)
(* C7                                                                      *)
(***************************************************************************)
\* C7: the client built by Init has the synchronous endpoint as base URL,
\* the one built by InitAsync is of the separate async type with the
\* asynchronous endpoint, both hold the username and password given, and
\* this stays so in every state the scrape operations lead to.
C7_EndpointFixedAtConstruction ==
    /\ ctor.fn = "Init" =>
            /\ client.type = "Client"
            /\ client.BaseUrl = "https://realtime.oxylabs.io/v1/queries"
    /\ ctor.fn = "InitAsync" =>
            /\ client.type = "ClientAsync"
            /\ client.BaseUrl = "https://data.oxylabs.io/v1/queries"
    /\ client.Username = ctor.username
    /\ client.Password = ctor.password

C7_Witness ==
    \E c \in Callers :
        /\ Done(c)
        /\ frame[c].resp # "nil"
        /\ ctor = [fn |-> "Init", username |-> "bob", password |-> "s3cret"]

(***************************************************************************)
(* C8                                                                      *)
(***************************************************************************)
\* C8: two calls that overlap on the same client share no mutable state: no
\* call writes a location that the other call reads or writes.
C8_NoSharedMutableState == racy = {}

(***************************************************************************)
(* C9                                                                      *)
(***************************************************************************)
C9_HasInstructions(c) == Arg(c).ParseInstructions # PINil

\* C9: a payload that is sent has the key parsing_instructions exactly when
\* the caller's ParseInstructions is non-nil, and then validation accepted
\* them; normalization gets the custom-parser flag in exactly those calls;
\* instructions that validation does not accept never reach a request, and
\* the error "invalid parse instructions" is returned only for such.
C9_ParseInstructions ==
    \A c \in Callers :
        Called(c) =>
            /\ \A b \in Bodies(c) :
                    /\ JsonGet(b, "parsing_instructions") # JAbsent
                            <=> C9_HasInstructions(c)
                    /\ C9_HasInstructions(c) =>
                            /\ JsonGet(b, "parsing_instructions") =
                                    JObj(Arg(c).ParseInstructions)
                            /\ hist[c].piCheck = "accepted"
                            /\ Arg(c).ParseInstructions = "pi_ok"
            /\ hist[c].norm.called =>
                    hist[c].norm.customParserFlag = C9_HasInstructions(c)
            /\ Arg(c).ParseInstructions = "pi_bad" =>
                    NoRequest(c) /\ ReturnedValidationError(c)
            /\ hist[c].piCheck = "rejected" =>
                    Done(c) /\ frame[c].err = ErrParseInstructions
            /\ frame[c].err = ErrParseInstructions =>
                    Arg(c).ParseInstructions = "pi_bad"

C9_Witness ==
    \E c \in Callers :
        /\ Done(c)
        /\ Arg(c).ParseInstructions = "pi_ok"
        /\ Len(hist[c].reqs) = 1
        /\ hist[c].norm.called
        /\ hist[c].norm.customParserFlag

(***************************************************************************)
(* C10                                                                     *)
(***************************************************************************)
\* C10: every request of a search or pricing call carries pages >= 1 and
\* start_page >= 1; a negative pages or start_page ends in a validation error
\* before any request; a pages or start_page of 0 is sent as 1 and is not
\* what the page check rejects.
C10_PagesAtLeastOne ==
    \A c \in Callers :
        frame[c].fn \in {"Search", "Pricing"} =>
            /\ \A b \in Bodies(c) :
                    /\ JsonGet(b, "pages").j = "number"
                    /\ JsonGet(b, "pages").n >= 1
                    /\ JsonGet(b, "start_page").j = "number"
                    /\ JsonGet(b, "start_page").n >= 1
                    /\ Arg(c).Pages = 0 => JsonGet(b, "pages") = JNum(1)
                    /\ Arg(c).StartPage = 0 => JsonGet(b, "start_page") = JNum(1)
            /\ Arg(c).Pages < 0 \/ Arg(c).StartPage < 0 =>
                    /\ NoRequest(c)
                    /\ ~Panicked(c)
                    /\ ReturnedValidationError(c)
            /\ Arg(c).Pages >= 0 /\ Arg(c).StartPage >= 0 =>
                    frame[c].err # ErrPages

C10_Witness ==
    \E c \in Callers :
        /\ frame[c].fn = "Pricing"
        /\ Arg(c).Pages = 0
        /\ Arg(c).StartPage = 0
        /\ Len(hist[c].reqs) = 1

====
